---- MODULE Spec2Model ----
(***************************************************************************)
(* LTC5599 quadrature modulator driver (ltc5599.c): the register access    *)
(* layer (ltc5599_write / ltc5599_read under indio_dev->mlock), the shadow *)
(* register cache, the parameter codecs and the read_raw / write_raw      *)
(* channel accessors, with the SPI device as a register file that an      *)
(* exchange either reaches (success) or does not (a negative errno).      *)
(***************************************************************************)
EXTENDS Integers, Sequences, FiniteSets, TLC

VARIABLES
  shadowregs,  \* st->shadowregs[32]
  devregs,     \* the chip's register file behind the SPI bus
  data,        \* st->data[2], the shared transfer buffer
  mlock,       \* indio_dev->mlock: 0 when free, else the caller holding it
  pc,          \* per caller: position in the accessor being executed
  req,         \* per caller: the read_raw / write_raw call in progress
  addr,        \* per caller: the addr argument of ltc5599_write / ltc5599_read
  val,         \* per caller: the u8 payload (write) or the byte received (read)
  stage,       \* per caller: which of the two register accesses of a phase operation
  tmp2,        \* per caller: tmp2 of ltc5599_write_iqphasebalance
  multiplier,  \* per caller: multiplier of ltc5599_read_iqphasebalance
  ret,         \* per caller: the status returned by spi_sync
  result,      \* per caller: the return value of read_raw / write_raw
  out,         \* per caller: the caller's *val of read_raw
  requests,    \* per caller: the calls this caller may issue (fixed by Init)
  nxfer,       \* history: bus exchanges performed by the call in progress
  built,       \* history: the frame this caller put in the transfer buffer
  pre,         \* history: shadowregs as they were when the call was made
  prev,        \* history: the caller's previous call if it was a write that succeeded
  lastOk       \* history: per register, the byte of the last successful exchange

vars == << shadowregs, devregs, data, mlock, pc, req, addr, val, stage, tmp2,
           multiplier, ret, result, out, requests, nxfer, built, pre, prev, lastOk >>

-----------------------------------------------------------------------------
(* Register map and bit fields, ltc5599.c lines 21-62.                     *)

LTC5599_FREQ_REG == 0
LTC5599_FREQ_MASK == 127
LTC5599_IQ_PHASEBAL_EXT_SIGN_BIT == 128
LTC5599_GAIN_REG == 1
LTC5599_GAIN_MASK == 31
LTC5599_OFFSI_REG == 2
LTC5599_OFFSQ_REG == 3
LTC5599_IQ_GAINRAT_REG == 4
LTC5599_IQ_PHASEBAL_REG == 5
LTC5599_IQ_PHASEBAL_FINE_MASK == 31
LTC5599_IQ_PHASEBAL_EXT_SHIFT == 5
LTC5599_IQ_PHASEBAL_EXT_MASK == 224
LTC5599_LOMATCH_OVR_REG == 6
LTC5599_TEMPCORR_OVR_REG == 7
LTC5599_MODE_REG == 8
LTC5599_READ_OPERATION == 1

NumShadowRegs == 32
EINVAL == 22
IIO_VAL_INT == 1
IIO_VAL_INT_PLUS_MICRO_DB == 4

Regs == 0 .. (NumShadowRegs - 1)

\* The negative errno values spi_sync may return (-EIO, -ETIMEDOUT).
BusErrors == {0 - 5, 0 - 110}

-----------------------------------------------------------------------------
(* C integer operators on the values the driver uses.                      *)

RECURSIVE BitAnd(_, _)
BitAnd(a, b) ==
  IF a = 0 \/ b = 0 THEN 0
  ELSE 2 * BitAnd(a \div 2, b \div 2) + (IF a % 2 = 1 /\ b % 2 = 1 THEN 1 ELSE 0)

RECURSIVE BitOr(_, _)
BitOr(a, b) ==
  IF a = 0 THEN b
  ELSE IF b = 0 THEN a
  ELSE 2 * BitOr(a \div 2, b \div 2) + (IF a % 2 = 1 \/ b % 2 = 1 THEN 1 ELSE 0)

RECURSIVE BitXor(_, _)
BitXor(a, b) ==
  IF a = 0 THEN b
  ELSE IF b = 0 THEN a
  ELSE 2 * BitXor(a \div 2, b \div 2) + (IF a % 2 # b % 2 THEN 1 ELSE 0)

\* Conversion of an int to u8 / the low byte of its two's complement form.
ToU8(x) == x % 256

\* ~mask within a byte.
NotU8(mask) == 255 - mask

-----------------------------------------------------------------------------
(* freq_to_ctrl_word: the chain of "else if (freq_in_khz > T) return W".   *)

FreqTable ==
  << <<1249100, 1>>, <<1248600, 2>>, <<1238100, 3>>, <<1214100, 4>>,
     <<1191200, 5>>, <<1165600, 6>>, <<1141000, 7>>, <<1120600, 8>>,
     <<1100500, 9>>, <<1069500, 10>>, <<1039599, 11>>, <<1023100, 12>>,
     <<1007100, 13>>, <<988300, 14>>, <<961800, 15>>, <<941300, 16>>,
     <<921500, 17>>, <<895200, 18>>, <<877600, 19>>, <<863600, 20>>,
     <<843200, 21>>, <<826900, 22>>, <<807000, 23>>, <<792300, 24>>,
     <<772200, 25>>, <<752700, 26>>, <<734000, 27>>, <<724200, 28>>,
     <<704600, 29>>, <<688700, 30>>, <<673200, 31>>, <<655200, 32>>,
     <<638100, 33>>, <<624600, 34>>, <<611900, 35>>, <<598400, 36>>,
     <<585100, 37>>, <<573900, 38>>, <<563100, 39>>, <<548100, 40>>,
     <<538100, 41>>, <<529100, 42>>, <<518500, 43>>, <<507000, 44>>,
     <<497700, 45>>, <<488000, 46>>, <<471500, 47>>, <<457700, 48>>,
     <<448700, 49>>, <<437400, 50>>, <<426600, 51>>, <<417500, 52>>,
     <<407500, 53>>, <<398000, 54>>, <<390100, 55>>, <<382800, 56>>,
     <<376600, 57>>, <<369800, 58>>, <<353100, 59>>, <<339000, 60>>,
     <<332600, 61>>, <<327200, 62>>, <<320600, 63>>, <<313700, 64>>,
     <<309100, 65>>, <<304500, 66>>, <<288100, 67>>, <<278300, 68>>,
     <<274200, 69>>, <<270300, 70>>, <<266000, 71>>, <<261899, 72>>,
     <<258200, 73>>, <<254100, 74>>, <<243600, 75>>, <<233800, 76>>,
     <<230800, 77>>, <<228000, 78>>, <<220200, 79>>, <<212600, 80>>,
     <<210000, 81>>, <<207600, 82>>, <<202100, 83>>, <<196200, 84>>,
     <<193700, 85>>, <<191200, 86>>, <<186600, 87>>, <<182000, 88>>,
     <<179400, 89>>, <<176000, 90>>, <<170100, 91>>, <<165000, 92>>,
     <<162500, 93>>, <<160000, 94>>, <<156700, 95>>, <<153600, 96>>,
     <<151100, 97>>, <<148600, 98>>, <<142500, 99>>, <<139600, 100>>,
     <<136500, 101>>, <<134300, 102>>, <<131200, 103>>, <<128100, 104>>,
     <<126000, 105>>, <<123800, 106>>, <<121300, 107>>, <<118300, 108>>,
     <<115700, 109>>, <<113500, 110>>, <<111300, 111>>, <<109500, 112>>,
     <<107600, 113>>, <<105600, 114>>, <<103000, 115>>, <<100300, 116>>,
     <<98500, 117>>, <<96600, 118>>, <<94700, 119>>, <<93000, 120>> >>

\* The branches of the chain whose condition holds; the chain takes the first.
BranchesTaken(freq_in_khz) ==
  {i \in 1 .. Len(FreqTable) : freq_in_khz > FreqTable[i][1]}

\* Mutation: the comparisons of the chain made inclusive.
freq_to_ctrl_word_Inclusive(freq_in_khz) ==
  LET hit == {i \in 1 .. Len(FreqTable) : freq_in_khz >= FreqTable[i][1]}
  IN  IF hit = {} THEN 121
      ELSE FreqTable[CHOOSE i \in hit : \A j \in hit : i <= j][2]

freq_to_ctrl_word(freq_in_khz) ==
  LET hit == BranchesTaken(freq_in_khz)
  IN  IF hit = {} THEN 121
      ELSE FreqTable[CHOOSE i \in hit : \A j \in hit : i <= j][2]

-----------------------------------------------------------------------------
(* Parameter codecs: the byte each write accessor sends and the value each *)
(* read accessor decodes.                                                  *)

\* ltc5599_write_freq: tmp = (tmp & ~LTC5599_FREQ_MASK) | LTC5599_FREQ_VALUE(val)
FreqRegValue(shadow, word) ==
  BitOr(BitAnd(shadow, NotU8(LTC5599_FREQ_MASK)), BitAnd(word, LTC5599_FREQ_MASK))

\* Mutation: the gain field written without the cached upper bits.
GainRegValue_NoMerge(shadow, mag) == BitAnd(mag, LTC5599_GAIN_MASK)

\* ltc5599_write_gain: tmp = (tmp & ~LTC5599_GAIN_MASK) | LTC5599_GAIN_VALUE(val)
GainRegValue(shadow, mag) ==
  BitOr(BitAnd(shadow, NotU8(LTC5599_GAIN_MASK)), BitAnd(mag, LTC5599_GAIN_MASK))

\* Mutation: the clamp of the magnitude to 19 left out.
GainMagnitude_NoClamp(v) == IF v > 0 THEN 19 ELSE 0 - v

\* write_raw, IIO_CHAN_INFO_HARDWAREGAIN: tmp = -val; if (tmp > 19) tmp = 19.
\* tmp is unsigned: the negation of a positive val wraps to a value above 19.
GainMagnitude(v) == IF v > 0 \/ (0 - v) > 19 THEN 19 ELSE 0 - v

\* ltc5599_write_offset: clamp to -127..127, add 128, LTC5599_OFFS_VALUE
OffsetRegValue(v) ==
  LET c1 == IF v > 127 THEN 127 ELSE v
      c2 == IF c1 < 0 - 127 THEN 0 - 127 ELSE c1
  IN  BitAnd(ToU8(c2 + 128), 255)

\* Mutation: the sign bit not flipped.
GainRatRegValue_NoFlip(v) == BitAnd(ToU8(v), 255)

\* ltc5599_write_iqgainratio: tmp = LTC5599_IQ_GAINRAT_VALUE(val); tmp ^= 0x80
GainRatRegValue(v) == BitXor(BitAnd(ToU8(v), 255), 128)

\* ltc5599_write_iqphasebalance: the sign bit merged into the frequency byte
PhaseSignValue(shadow, v) ==
  IF v < 0 - 16
    THEN BitAnd(shadow, NotU8(LTC5599_IQ_PHASEBAL_EXT_SIGN_BIT))
    ELSE BitOr(shadow, LTC5599_IQ_PHASEBAL_EXT_SIGN_BIT)

\* Mutation: the coarse step taken without the half-step rounding.
PhaseCoarse_Truncated(v) == IF v > 0 THEN v \div 32 ELSE (0 - v) \div 32

\* ltc5599_write_iqphasebalance: coarse (C division of non-negative operands)
PhaseCoarse(v) == IF v > 0 THEN (v + 16) \div 32 ELSE (15 - v) \div 32

\* ltc5599_write_iqphasebalance: tmp1 = EXT_VALUE(coarse) | FINE_VALUE((val & 0x1F) ^ 0x10)
PhaseRegValue(v) ==
  BitOr(BitAnd(PhaseCoarse(v), 7) * (2 ^ LTC5599_IQ_PHASEBAL_EXT_SHIFT),
        BitAnd(BitXor(v % 32, 16), LTC5599_IQ_PHASEBAL_FINE_MASK))

\* ltc5599_read_freq: *val = shadowregs[FREQ] & LTC5599_FREQ_MASK
FreqField(byte) == BitAnd(byte, LTC5599_FREQ_MASK)

\* read_raw, IIO_CHAN_INFO_FREQUENCY: the cubic in long long, then (int)
FreqPolynomial(w) ==
  ((((0 - 553) * w + 198810) * w - 26120002) * w) + 1319492809

\* ltc5599_read_gain and read_raw: *val = -1 * (shadowregs[GAIN] & LTC5599_GAIN_MASK)
GainDecode(byte) == (0 - 1) * BitAnd(byte, LTC5599_GAIN_MASK)

\* ltc5599_read_offset: *val = shadowregs[..]; *val -= 128
OffsetDecode(byte) == byte - 128

\* ltc5599_read_iqgainratio: *val = shadowregs[..]; *val -= 128
GainRatDecode(byte) == byte - 128

\* ltc5599_read_iqphasebalance: multiplier from the sign bit of the frequency byte
PhaseMultiplier(byte) ==
  IF BitAnd(byte, LTC5599_IQ_PHASEBAL_EXT_SIGN_BIT) # 0 THEN 1 ELSE 0 - 1

\* ltc5599_read_iqphasebalance: fine - 16 + multiplier * coarse * 32
PhaseDecode(byte, mult) ==
  LET coarse == BitAnd(byte, LTC5599_IQ_PHASEBAL_EXT_MASK) \div (2 ^ LTC5599_IQ_PHASEBAL_EXT_SHIFT)
  IN  (BitAnd(byte, LTC5599_IQ_PHASEBAL_FINE_MASK) - 16) + mult * coarse * 32

-----------------------------------------------------------------------------
(* The SPI frame, ltc5599_write lines 123-124 and ltc5599_read lines 138-139 *)

WriteFrame(a, v) ==
  << BitAnd(BitAnd(a, 127) * 2, NotU8(LTC5599_READ_OPERATION)), BitAnd(v, 255) >>

ReadFrame(a) ==
  << BitOr(BitAnd(a, 127) * 2, LTC5599_READ_OPERATION), 255 >>

\* The chip's view of a frame: the register addressed and the direction.
FrameAddr(f) == f[1] \div 2
FrameIsRead(f) == f[1] % 2 = 1

-----------------------------------------------------------------------------
(* Callers, requests and the values a call leaves untouched.               *)

Callers == {1, 2}

Infos == {"offset", "frequency", "hardwaregain", "quadrature_correction_raw", "phase"}

W(info, chan, v) == [dir |-> "w", info |-> info, chan |-> chan, val |-> v]
R(info, chan) == [dir |-> "r", info |-> info, chan |-> chan, val |-> 0]
NoReq == [dir |-> "none", info |-> "none", chan |-> 0, val |-> 0]

\* What the caller's *val / *val2 hold before read_raw writes them.
Untouched == 0 - 2000000000
NoOut == [val |-> Untouched, val2 |-> Untouched]
NoFrame == << 0, 0 >>

\* Mutation: the gain register primed with 0x04 (TEMPUPDT bit missing).
ResetValues_GainBit ==
  [r \in 0 .. 31 |->
     CASE r = 0 -> 46 [] r = 1 -> 4 [] r = 2 -> 128 [] r = 3 -> 128 [] r = 4 -> 128
       [] r = 5 -> 16 [] r = 6 -> 80 [] r = 7 -> 6 [] OTHER -> 0]

\* ltc5599_fill_shadowregs: memset to 0, then the nine reset values.
ResetValues ==
  [r \in Regs |->
     CASE r = LTC5599_FREQ_REG -> 46
       [] r = LTC5599_GAIN_REG -> 132
       [] r = LTC5599_OFFSI_REG -> 128
       [] r = LTC5599_OFFSQ_REG -> 128
       [] r = LTC5599_IQ_GAINRAT_REG -> 128
       [] r = LTC5599_IQ_PHASEBAL_REG -> 16
       [] r = LTC5599_LOMATCH_OVR_REG -> 80
       [] r = LTC5599_TEMPCORR_OVR_REG -> 6
       [] r = LTC5599_MODE_REG -> 0
       [] OTHER -> 0]

\* A chip that was not reset before the driver was bound: its registers differ
\* from the values the cache is primed with.
DriftedValues ==
  [r \in Regs |->
     CASE r = LTC5599_FREQ_REG -> 133
       [] r = LTC5599_GAIN_REG -> 233
       [] r = LTC5599_OFFSI_REG -> 3
       [] r = LTC5599_OFFSQ_REG -> 250
       [] r = LTC5599_IQ_GAINRAT_REG -> 77
       [] r = LTC5599_IQ_PHASEBAL_REG -> 99
       [] OTHER -> ResetValues[r]]

-----------------------------------------------------------------------------
(* write_raw: the domain checks made before any bus access.                *)

\* Mutation: the range check of the offset case left out.
OffsetInDomain_Any(v) == TRUE

OffsetInDomain(v) == ~((v < 0 - 127) \/ (v > 127))
FrequencyInDomain(v) == ~((v < 30000000) \/ (v > 1300000000))
\* Mutation: the sign check of the gain case left out.
GainInDomain_Any(v) == TRUE

GainInDomain(v) == ~(v > 0)
GainRatInDomain(v) == ~((v < 0 - 127) \/ (v > 127))
PhaseInDomain(v) == ~((v < 0 - 240) \/ (v > 239))

\* The switch of write_raw: whether the case reaches its ltc5599_write_* call.
WriteAccepted(r) ==
  CASE r.info = "offset" -> OffsetInDomain(r.val) /\ ~(r.chan > 1)
    [] r.info = "frequency" -> FrequencyInDomain(r.val)
    [] r.info = "hardwaregain" -> GainInDomain(r.val)
    [] r.info = "quadrature_correction_raw" -> GainRatInDomain(r.val)
    [] r.info = "phase" -> PhaseInDomain(r.val)
    [] OTHER -> FALSE

\* Mutation: the channel added to every register address, not to the offset's alone.
WriteAddr_ChanAdded(r) ==
  CASE r.info = "offset" -> LTC5599_OFFSI_REG + r.chan
    [] r.info = "frequency" -> LTC5599_FREQ_REG + r.chan
    [] r.info = "hardwaregain" -> LTC5599_GAIN_REG + r.chan
    [] r.info = "quadrature_correction_raw" -> LTC5599_IQ_GAINRAT_REG + r.chan
    [] r.info = "phase" -> LTC5599_IQ_PHASEBAL_REG + r.chan

\* Mutation: the offset register chosen without the channel.
WriteAddr_ChanIgnored(r) ==
  CASE r.info = "offset" -> LTC5599_OFFSI_REG
    [] r.info = "frequency" -> LTC5599_FREQ_REG
    [] r.info = "hardwaregain" -> LTC5599_GAIN_REG
    [] r.info = "quadrature_correction_raw" -> LTC5599_IQ_GAINRAT_REG
    [] r.info = "phase" -> LTC5599_IQ_PHASEBAL_REG

\* The register the first ltc5599_write of the accessor addresses.
WriteAddr(r) ==
  CASE r.info = "offset" -> LTC5599_OFFSI_REG + r.chan
    [] r.info = "frequency" -> LTC5599_FREQ_REG
    [] r.info = "hardwaregain" -> LTC5599_GAIN_REG
    [] r.info = "quadrature_correction_raw" -> LTC5599_IQ_GAINRAT_REG
    [] r.info = "phase" -> LTC5599_IQ_PHASEBAL_REG

\* The byte the first ltc5599_write of the accessor sends, computed on entry
\* from the argument and the cached byte.
WriteByte(r, shadow) ==
  CASE r.info = "offset" -> OffsetRegValue(r.val)
    [] r.info = "frequency" ->
         FreqRegValue(shadow[LTC5599_FREQ_REG], freq_to_ctrl_word(r.val \div 1000))
    [] r.info = "hardwaregain" ->
         GainRegValue(shadow[LTC5599_GAIN_REG], GainMagnitude(r.val))
    [] r.info = "quadrature_correction_raw" -> GainRatRegValue(r.val)
    [] r.info = "phase" -> PhaseRegValue(r.val)

\* The register the first ltc5599_read of the accessor addresses.
ReadAddr(r) ==
  CASE r.info = "offset" -> LTC5599_OFFSI_REG + r.chan
    [] r.info = "frequency" -> LTC5599_FREQ_REG
    [] r.info = "hardwaregain" -> LTC5599_GAIN_REG
    [] r.info = "quadrature_correction_raw" -> LTC5599_IQ_GAINRAT_REG
    [] r.info = "phase" -> LTC5599_FREQ_REG

ReadAccepted(r) == r.info \in Infos /\ ~(r.info = "offset" /\ r.chan > 1)

-----------------------------------------------------------------------------
(* Actions.                                                                *)

\* Mutation: the check written as "ret > 0".
AccessFailed_Positive(status) == status > 0

\* Mutation: the status of the access not looked at.
AccessFailed_Never(status) == FALSE

\* "if (ret) return ret;" after ltc5599_write / ltc5599_read in every accessor.
AccessFailed(status) == status # 0

\* Mutation: every accessor goes on to a second register access.
HasSecondAccess_Always(r, stg) == stg = 1

\* Whether the accessor goes on to a second register access: only the phase
\* balance does (ltc5599_write_iqphasebalance line 310, ltc5599_read_iqphasebalance
\* line 334), after its first access.
HasSecondAccess(r, stg) == r.info = "phase" /\ stg = 1

\* Mutation: the cache store after a successful access left out.
ShadowStore_Skipped(shadow, a, byte) == shadow

\* "st->shadowregs[REG] = tmp;" after a successful access.
ShadowStore(shadow, a, byte) == [shadow EXCEPT ![a] = byte]

\* The call returns: result and *val are what the caller sees.
Complete(t, res, o) ==
  /\ pc' = [pc EXCEPT ![t] = "idle"]
  /\ result' = [result EXCEPT ![t] = res]
  /\ out' = [out EXCEPT ![t] = o]
  /\ addr' = [addr EXCEPT ![t] = 0]
  /\ val' = [val EXCEPT ![t] = 0]
  /\ tmp2' = [tmp2 EXCEPT ![t] = 0]
  /\ multiplier' = [multiplier EXCEPT ![t] = 0]
  /\ built' = [built EXCEPT ![t] = NoFrame]

\* Entry bookkeeping shared by read_raw and write_raw.
Enter(t, r) ==
  /\ pc[t] = "idle"
  /\ r \in requests[t]
  /\ req' = [req EXCEPT ![t] = r]
  /\ prev' = [prev EXCEPT ![t] = IF req[t].dir = "w" /\ result[t] = 0 THEN req[t] ELSE NoReq]
  /\ pre' = [pre EXCEPT ![t] = shadowregs]
  /\ nxfer' = [nxfer EXCEPT ![t] = 0]
  /\ ret' = [ret EXCEPT ![t] = 0]

ltc5599_write_raw(t, r) ==
  /\ r.dir = "w"
  /\ Enter(t, r)
  /\ IF WriteAccepted(r)
       THEN /\ pc' = [pc EXCEPT ![t] = "write_lock"]
            /\ addr' = [addr EXCEPT ![t] = WriteAddr(r)]
            /\ val' = [val EXCEPT ![t] = WriteByte(r, shadowregs)]
            /\ tmp2' = [tmp2 EXCEPT ![t] =
                          IF r.info = "phase"
                            THEN PhaseSignValue(shadowregs[LTC5599_FREQ_REG], r.val)
                            ELSE 0]
            /\ stage' = [stage EXCEPT ![t] = 1]
            /\ result' = [result EXCEPT ![t] = 0]
            /\ out' = [out EXCEPT ![t] = NoOut]
            /\ UNCHANGED << multiplier, built >>
       ELSE /\ stage' = [stage EXCEPT ![t] = 0]
            /\ Complete(t, 0 - EINVAL, NoOut)
  /\ UNCHANGED << shadowregs, devregs, data, mlock, requests, lastOk >>

ltc5599_read_raw(t, r) ==
  /\ r.dir = "r"
  /\ Enter(t, r)
  /\ IF ReadAccepted(r)
       THEN /\ pc' = [pc EXCEPT ![t] = "read_lock"]
            /\ addr' = [addr EXCEPT ![t] = ReadAddr(r)]
            /\ val' = [val EXCEPT ![t] = 0]
            /\ stage' = [stage EXCEPT ![t] = 1]
            /\ result' = [result EXCEPT ![t] = 0]
            /\ out' = [out EXCEPT ![t] = NoOut]
            /\ UNCHANGED << tmp2, multiplier, built >>
       ELSE /\ stage' = [stage EXCEPT ![t] = 0]
            /\ Complete(t, 0 - EINVAL, NoOut)
  /\ UNCHANGED << shadowregs, devregs, data, mlock, requests, lastOk >>

\* Mutation: the lock taken without waiting for its holder.
mutex_lock_NoWait(t) ==
  /\ mlock' = t

\* Mutation: the lock kept after a failed exchange.
mutex_unlock_ErrorPathHolds(t) ==
  /\ mlock' = IF ret[t] # 0 THEN mlock ELSE 0

\* mutex_lock(&indio_dev->mlock)
mutex_lock(t) ==
  /\ mlock = 0
  /\ mlock' = t

\* mutex_unlock(&indio_dev->mlock)
mutex_unlock(t) ==
  /\ mlock' = 0

\* spi_read_while_write / spi_sync: the 2 bytes in the transfer buffer are
\* exchanged. A failed exchange (negative errno) does not reach the chip.
spi_read_while_write(t, status) ==
  /\ ret' = [ret EXCEPT ![t] = status]
  /\ nxfer' = [nxfer EXCEPT ![t] = @ + 1]
  /\ IF status = 0
       THEN LET a == FrameAddr(data)
                rx == IF a \in Regs THEN devregs[a] ELSE 0
            IN  IF FrameIsRead(data)
                  THEN /\ val' = [val EXCEPT ![t] = rx]
                       /\ lastOk' = IF a \in Regs THEN [lastOk EXCEPT ![a] = rx] ELSE lastOk
                       /\ UNCHANGED devregs
                  ELSE /\ devregs' = IF a \in Regs THEN [devregs EXCEPT ![a] = data[2]]
                                                   ELSE devregs
                       /\ lastOk' = IF a \in Regs THEN [lastOk EXCEPT ![a] = data[2]] ELSE lastOk
                       /\ UNCHANGED val
       ELSE UNCHANGED << devregs, lastOk, val >>

ltc5599_write_lock(t) ==
  /\ pc[t] = "write_lock"
  /\ mutex_lock(t)
  /\ pc' = [pc EXCEPT ![t] = "write_frame"]
  /\ UNCHANGED << shadowregs, devregs, data, req, addr, val, stage, tmp2, multiplier,
                  ret, result, out, requests, nxfer, built, pre, prev, lastOk >>

ltc5599_write_frame(t) ==
  /\ pc[t] = "write_frame"
  /\ data' = WriteFrame(addr[t], val[t])
  /\ built' = [built EXCEPT ![t] = WriteFrame(addr[t], val[t])]
  /\ pc' = [pc EXCEPT ![t] = "write_xfer"]
  /\ UNCHANGED << shadowregs, devregs, mlock, req, addr, val, stage, tmp2, multiplier,
                  ret, result, out, requests, nxfer, pre, prev, lastOk >>

ltc5599_write_xfer(t) ==
  /\ pc[t] = "write_xfer"
  /\ \E status \in {0} \cup BusErrors : spi_read_while_write(t, status)
  /\ pc' = [pc EXCEPT ![t] = "write_unlock"]
  /\ UNCHANGED << shadowregs, data, mlock, req, addr, stage, tmp2, multiplier,
                  result, out, requests, built, pre, prev >>

ltc5599_write_unlock(t) ==
  /\ pc[t] = "write_unlock"
  /\ mutex_unlock(t)
  /\ pc' = [pc EXCEPT ![t] = "write_ret"]
  /\ UNCHANGED << shadowregs, devregs, data, req, addr, val, stage, tmp2, multiplier,
                  ret, result, out, requests, nxfer, built, pre, prev, lastOk >>

\* Mutation: the phase-balance write stores both cache entries after its first
\* register write.
WriteReturn_EarlyStore(t) ==
  /\ pc[t] = "write_ret"
  /\ IF AccessFailed(ret[t])
       THEN /\ Complete(t, ret[t], out[t])
            /\ UNCHANGED << shadowregs, stage >>
       ELSE IF HasSecondAccess(req[t], stage[t])
              THEN /\ shadowregs' = ShadowStore(ShadowStore(shadowregs, addr[t], val[t]),
                                                LTC5599_FREQ_REG, tmp2[t])
                   /\ stage' = [stage EXCEPT ![t] = 2]
                   /\ addr' = [addr EXCEPT ![t] = LTC5599_FREQ_REG]
                   /\ val' = [val EXCEPT ![t] = tmp2[t]]
                   /\ pc' = [pc EXCEPT ![t] = "write_lock"]
                   /\ UNCHANGED << tmp2, multiplier, result, out, built >>
              ELSE /\ shadowregs' = ShadowStore(shadowregs, addr[t], val[t])
                   /\ Complete(t, 0, out[t])
                   /\ UNCHANGED stage
  /\ UNCHANGED << devregs, data, mlock, req, ret, requests, nxfer, pre, prev, lastOk >>

\* The accessor after ltc5599_write returned: "if (ret) return ret;" then the
\* cache store, and for the phase balance the second write.
WriteReturn(t) ==
  /\ pc[t] = "write_ret"
  /\ IF AccessFailed(ret[t])
       THEN /\ Complete(t, ret[t], out[t])
            /\ UNCHANGED << shadowregs, stage >>
       ELSE /\ shadowregs' = ShadowStore(shadowregs, addr[t], val[t])
            /\ IF HasSecondAccess(req[t], stage[t])
                 THEN /\ stage' = [stage EXCEPT ![t] = 2]
                      /\ addr' = [addr EXCEPT ![t] = LTC5599_FREQ_REG]
                      /\ val' = [val EXCEPT ![t] = tmp2[t]]
                      /\ pc' = [pc EXCEPT ![t] = "write_lock"]
                      /\ UNCHANGED << tmp2, multiplier, result, out, built >>
                 ELSE /\ Complete(t, 0, out[t])
                      /\ UNCHANGED stage
  /\ UNCHANGED << devregs, data, mlock, req, ret, requests, nxfer, pre, prev, lastOk >>

ltc5599_read_lock(t) ==
  /\ pc[t] = "read_lock"
  /\ mutex_lock(t)
  /\ pc' = [pc EXCEPT ![t] = "read_frame"]
  /\ UNCHANGED << shadowregs, devregs, data, req, addr, val, stage, tmp2, multiplier,
                  ret, result, out, requests, nxfer, built, pre, prev, lastOk >>

ltc5599_read_frame(t) ==
  /\ pc[t] = "read_frame"
  /\ data' = ReadFrame(addr[t])
  /\ built' = [built EXCEPT ![t] = ReadFrame(addr[t])]
  /\ pc' = [pc EXCEPT ![t] = "read_xfer"]
  /\ UNCHANGED << shadowregs, devregs, mlock, req, addr, val, stage, tmp2, multiplier,
                  ret, result, out, requests, nxfer, pre, prev, lastOk >>

ltc5599_read_xfer(t) ==
  /\ pc[t] = "read_xfer"
  /\ \E status \in {0} \cup BusErrors : spi_read_while_write(t, status)
  /\ pc' = [pc EXCEPT ![t] = "read_unlock"]
  /\ UNCHANGED << shadowregs, data, mlock, req, addr, stage, tmp2, multiplier,
                  result, out, requests, built, pre, prev >>

ltc5599_read_unlock(t) ==
  /\ pc[t] = "read_unlock"
  /\ mutex_unlock(t)
  /\ pc' = [pc EXCEPT ![t] = "read_ret"]
  /\ UNCHANGED << shadowregs, devregs, data, req, addr, val, stage, tmp2, multiplier,
                  ret, result, out, requests, nxfer, built, pre, prev, lastOk >>

\* The value read_raw stores in *val (and *val2) from the byte just cached.
ReadValue(r, byte, mult) ==
  CASE r.info = "offset" -> [val |-> OffsetDecode(byte), val2 |-> Untouched]
    [] r.info = "frequency" -> [val |-> FreqPolynomial(FreqField(byte)), val2 |-> Untouched]
    [] r.info = "hardwaregain" -> [val |-> GainDecode(byte), val2 |-> 0]
    [] r.info = "quadrature_correction_raw" -> [val |-> GainRatDecode(byte), val2 |-> Untouched]
    [] r.info = "phase" -> [val |-> PhaseDecode(byte, mult), val2 |-> Untouched]

\* The return value of read_raw on success.
ReadResult(r) ==
  IF r.info = "hardwaregain" THEN IIO_VAL_INT_PLUS_MICRO_DB ELSE IIO_VAL_INT

\* The accessor after ltc5599_read returned: "if (ret) return ret;" then the
\* cache store and the decoding, and for the phase balance the second read.
ReadReturn(t) ==
  /\ pc[t] = "read_ret"
  /\ IF AccessFailed(ret[t])
       THEN /\ Complete(t, ret[t], out[t])
            /\ UNCHANGED << shadowregs, stage >>
       ELSE /\ shadowregs' = ShadowStore(shadowregs, addr[t], val[t])
            /\ IF HasSecondAccess(req[t], stage[t])
                 THEN /\ stage' = [stage EXCEPT ![t] = 2]
                      /\ multiplier' = [multiplier EXCEPT ![t] = PhaseMultiplier(val[t])]
                      /\ addr' = [addr EXCEPT ![t] = LTC5599_IQ_PHASEBAL_REG]
                      /\ pc' = [pc EXCEPT ![t] = "read_lock"]
                      /\ UNCHANGED << val, tmp2, result, out, built >>
                 ELSE /\ Complete(t, ReadResult(req[t]),
                                  ReadValue(req[t], shadowregs'[addr[t]], multiplier[t]))
                      /\ UNCHANGED stage
  /\ UNCHANGED << devregs, data, mlock, req, ret, requests, nxfer, pre, prev, lastOk >>

Step(t) ==
  \/ ltc5599_write_lock(t)
  \/ ltc5599_write_frame(t)
  \/ ltc5599_write_xfer(t)
  \/ ltc5599_write_unlock(t)
  \/ WriteReturn(t)
  \/ ltc5599_read_lock(t)
  \/ ltc5599_read_frame(t)
  \/ ltc5599_read_xfer(t)
  \/ ltc5599_read_unlock(t)
  \/ ReadReturn(t)

Next ==
  \E t \in Callers :
    \/ \E r \in requests[t] : ltc5599_write_raw(t, r)
    \/ \E r \in requests[t] : ltc5599_read_raw(t, r)
    \/ Step(t)

-----------------------------------------------------------------------------
(* Initial states: the device instance right after ltc5599_spi_probe, and  *)
(* the calls each caller may then issue.                                   *)

\* Largest attenuation requested in the gain codec check (inputs -MaxGainInput..0).
MaxGainInput == 25

OffsetInputs == {0 - 128, 0 - 127, 5, 127, 200}
FrequencyInputs == {29999999, 30000000, 1249100000, 1300000000, 1300000001}
GainInputs == {0 - 25, 0 - 3, 0, 5}
GainRatInputs == {0 - 128, 0 - 127, 0 - 1, 127, 128}
PhaseInputs == {0 - 241, 0 - 240, 0 - 17, 0 - 16, 100, 239, 240}

InputsOf(info) ==
  CASE info = "offset" -> OffsetInputs
    [] info = "frequency" -> FrequencyInputs
    [] info = "hardwaregain" -> GainInputs
    [] info = "quadrature_correction_raw" -> GainRatInputs
    [] info = "phase" -> PhaseInputs

ChannelsOf(info) == IF info = "offset" THEN {0, 1} ELSE {0}

\* Every read and write of one parameter, valid and invalid inputs alike.
RequestsOf(info) ==
  {W(info, c, v) : c \in ChannelsOf(info), v \in InputsOf(info)}
    \cup {R(info, c) : c \in ChannelsOf(info)}

\* A single caller works on one parameter, or on frequency and phase balance,
\* which share the frequency register.
SingleScenarios ==
  {RequestsOf(i) : i \in Infos} \cup {RequestsOf("frequency") \cup RequestsOf("phase")}

\* Concurrent callers each repeat one call; the pairs of calls are drawn from
\* this list (two gain writes and a frequency and a phase write meet on one
\* register, the reads meet the writes on the bus).
ConcurrentRequests ==
  << W("hardwaregain", 0, 0 - 3), W("hardwaregain", 1, 0 - 25),
     W("frequency", 0, 30000000), W("phase", 1, 100),
     R("phase", 0), R("hardwaregain", 1) >>

\* The threshold table's edges in Hz: just below, at, and just above each
\* threshold, and the two ends of the write domain.
FrequencyEdges ==
  UNION {{FreqTable[i][1] * 1000 - 1, FreqTable[i][1] * 1000,
          FreqTable[i][1] * 1000 + 999, FreqTable[i][1] * 1000 + 1000} :
         i \in 1 .. Len(FreqTable)}
    \cup {30000000, 1300000000}

\* One write of one in-domain value and the read of the same parameter.
CodecScenarios ==
  {{W("phase", 0, v), R("phase", 0)} : v \in (0 - 240) .. 239}
    \cup {{W("quadrature_correction_raw", 0, v), R("quadrature_correction_raw", 0)} :
          v \in (0 - 127) .. 127}
    \cup {{W("offset", c, v), R("offset", c)} : c \in {0, 1}, v \in (0 - 127) .. 127}
    \cup {{W("hardwaregain", 0, v), R("hardwaregain", 0)} : v \in (0 - MaxGainInput) .. 0}
    \cup {{W("frequency", 0, v), R("frequency", 0)} : v \in FrequencyEdges}

InitDevice ==
  /\ shadowregs = ResetValues
  /\ devregs \in {ResetValues, DriftedValues}
  /\ data = NoFrame
  /\ mlock = 0
  /\ pc = [t \in Callers |-> "idle"]
  /\ req = [t \in Callers |-> NoReq]
  /\ addr = [t \in Callers |-> 0]
  /\ val = [t \in Callers |-> 0]
  /\ stage = [t \in Callers |-> 0]
  /\ tmp2 = [t \in Callers |-> 0]
  /\ multiplier = [t \in Callers |-> 0]
  /\ ret = [t \in Callers |-> 0]
  /\ result = [t \in Callers |-> 0]
  /\ out = [t \in Callers |-> NoOut]
  /\ nxfer = [t \in Callers |-> 0]
  /\ built = [t \in Callers |-> NoFrame]
  /\ pre = [t \in Callers |-> ResetValues]
  /\ prev = [t \in Callers |-> NoReq]
  /\ lastOk = [r \in Regs |-> 0 - 1]

\* Two concurrent callers.
Init ==
  /\ InitDevice
  /\ \E i, j \in 1 .. Len(ConcurrentRequests) :
       /\ i <= j
       /\ requests = [t \in Callers |-> IF t = 1 THEN {ConcurrentRequests[i]}
                                                ELSE {ConcurrentRequests[j]}]

\* A single caller.
InitSingle ==
  /\ InitDevice
  /\ \E s \in SingleScenarios : requests = [t \in Callers |-> IF t = 1 THEN s ELSE {}]

\* A single caller writing one in-domain value and reading it back.
InitCodec ==
  /\ InitDevice
  /\ \E s \in CodecScenarios : requests = [t \in Callers |-> IF t = 1 THEN s ELSE {}]

\* One write through one channel, and the reads of that parameter through both.
ChannelScenarios ==
  UNION {{{W(info, c, v), R(info, 0), R(info, 1)} : c \in {0, 1}, v \in InputsOf(info)} :
         info \in Infos}

\* A single caller using both channels of the interface.
InitChannels ==
  /\ InitDevice
  /\ \E s \in ChannelScenarios : requests = [t \in Callers |-> IF t = 1 THEN s ELSE {}]

Spec == Init /\ [][Next]_vars

\* Two concurrent callers that each repeat one call: a phase-balance write
\* (two lock acquisitions) or a gain read.
FairRequests ==
  << W("phase", 1, 100), R("hardwaregain", 1) >>

InitFair ==
  /\ InitDevice
  /\ \E i, j \in 1 .. Len(FairRequests) :
       /\ i <= j
       /\ requests = [t \in Callers |-> IF t = 1 THEN {FairRequests[i]}
                                                ELSE {FairRequests[j]}]

\* Scheduling: a caller inside ltc5599_write/ltc5599_read keeps running
\* (weak fairness on its steps), and the kernel mutex hands the lock to a
\* waiter that keeps finding it free from time to time (strong fairness on
\* the acquisition). Nothing obliges a caller to issue a call.
Fairness ==
  \A t \in Callers :
    /\ WF_vars(Step(t))
    /\ SF_vars(ltc5599_write_lock(t))
    /\ SF_vars(ltc5599_read_lock(t))

SpecFair == InitFair /\ [][Next]_vars /\ Fairness
SpecChannels == InitChannels /\ [][Next]_vars
SpecSingle == InitSingle /\ [][Next]_vars
SpecCodec == InitCodec /\ [][Next]_vars

\* One frequency write, the frequency read, and the write of the value that
\* read returns for the tuning word written.
WriteBackScenarios ==
  {{W("frequency", 0, f), R("frequency", 0),
    W("frequency", 0, FreqPolynomial(freq_to_ctrl_word(f \div 1000)))} :
   f \in {g \in FrequencyEdges : g >= 30000000 /\ g <= 1300000000}}

\* A single caller writing a frequency back after reading it.
InitWriteBack ==
  /\ InitDevice
  /\ \E s \in WriteBackScenarios : requests = [t \in Callers |-> IF t = 1 THEN s ELSE {}]

SpecWriteBack == InitWriteBack /\ [][Next]_vars

-----------------------------------------------------------------------------
(* Properties.                                                             *)

\* The caller's call has returned and its result is on view.
Done(t) == pc[t] = "idle" /\ req[t] # NoReq

Quiescent == \A t \in Callers : pc[t] = "idle"

\* The byte the cache should hold for register r: that of the last successful
\* exchange for r, or the reset value if there was none.
LastObserved(r) == IF lastOk[r] = 0 - 1 THEN ResetValues[r] ELSE lastOk[r]

\* The register whose exchange failed in a write that returned a bus error.
FailedWriteReg(t) ==
  IF req[t].info = "phase" /\ stage[t] = 2 THEN LTC5599_FREQ_REG ELSE WriteAddr(req[t])

\* C1: with a single caller, between operations every shadow-cache entry equals
\* the byte of the most recent successful bus exchange for that register, or
\* its reset default if no exchange for it has succeeded, whatever exchanges
\* failed in between.
C1_CacheTracksLastExchange ==
  Quiescent => \A r \in Regs : shadowregs[r] = LastObserved(r)

C1_Witness ==
  /\ Done(1)
  /\ result[1] \in BusErrors
  /\ \E r \in Regs : lastOk[r] # 0 - 1 /\ lastOk[r] # ResetValues[r]
                     /\ shadowregs[r] = lastOk[r]

\* C2: a parameter write whose bus exchange fails returns the bus error
\* unchanged, and the cache entry of the register that exchange addressed has
\* the value it had when the call was made.
C2_FailedWriteKeepsCache ==
  \A t \in Callers :
    (Done(t) /\ req[t].dir = "w" /\ nxfer[t] > 0 /\ ret[t] # 0) =>
      /\ result[t] = ret[t]
      /\ result[t] \in BusErrors
      /\ shadowregs[FailedWriteReg(t)] = pre[t][FailedWriteReg(t)]

C2_Witness ==
  /\ Done(1)
  /\ req[1].dir = "w"
  /\ req[1].info = "hardwaregain"
  /\ result[1] = 0 - 110
  /\ WriteByte(req[1], pre[1]) # pre[1][LTC5599_GAIN_REG]

\* C3 (as claimed): a caller holds the per-device lock from its frame build to
\* its cache update, and once concurrent calls have all returned every cache
\* entry equals the byte of the last successful exchange for its register.
C3_LockCoversCacheUpdate ==
  /\ \A t \in Callers :
       pc[t] \in {"write_frame", "write_xfer", "write_unlock", "write_ret",
                  "read_frame", "read_xfer", "read_unlock", "read_ret"} => mlock = t
  /\ Quiescent => \A r \in Regs : shadowregs[r] = LastObserved(r)

\* The second half of the C3 claim alone: the cache after concurrent writes.
C3_CacheAfterConcurrentWrites ==
  (\A t \in Callers : Done(t) /\ req[t].dir = "w" /\ result[t] = 0) =>
    \A r \in Regs : shadowregs[r] = LastObserved(r)

\* The domain of each write other than offset, as documented.
OutOfDomain(r) ==
  \/ r.info = "frequency" /\ (r.val < 30000000 \/ r.val > 1300000000)
  \/ r.info = "hardwaregain" /\ r.val > 0
  \/ r.info = "quadrature_correction_raw" /\ (r.val < 0 - 127 \/ r.val > 127)
  \/ r.info = "phase" /\ (r.val < 0 - 240 \/ r.val > 239)

\* C4: a frequency, gain, gain-ratio or phase-balance write with an input
\* outside its domain returns -EINVAL, performs no bus exchange and leaves the
\* whole shadow cache (and the chip) as it was.
C4_InvalidInputRejected ==
  \A t \in Callers :
    (Done(t) /\ req[t].dir = "w" /\ OutOfDomain(req[t])) =>
      /\ result[t] = 0 - EINVAL
      /\ nxfer[t] = 0
      /\ shadowregs = pre[t]

C4_Witness ==
  /\ Done(1)
  /\ req[1] = W("hardwaregain", 0, 5)
  /\ result[1] = 0 - EINVAL
  /\ \E r \in Regs : shadowregs[r] # ResetValues[r]

OffsetOutOfRange(r) == r.info = "offset" /\ (r.val < 0 - 127 \/ r.val > 127)

ClampedOffset(v) == IF v > 127 THEN 127 ELSE IF v < 0 - 127 THEN 0 - 127 ELSE v

ReadBack(t, info) ==
  /\ Done(t)
  /\ req[t].dir = "r"
  /\ req[t].info = info
  /\ result[t] > 0
  /\ prev[t].dir = "w"
  /\ prev[t].info = info
  /\ prev[t].chan = req[t].chan

Wrote(t, info) ==
  Done(t) /\ req[t].dir = "w" /\ req[t].info = info /\ result[t] = 0

\* C6: for every v in -240..239, a successful phase-balance write of v followed
\* by a successful phase-balance read returns exactly v.
C6_PhaseRoundTrip ==
  \A t \in Callers :
    (ReadBack(t, "phase") /\ prev[t].val \in (0 - 240) .. 239) =>
      /\ result[t] = IIO_VAL_INT
      /\ out[t].val = prev[t].val

C6_Witness ==
  /\ ReadBack(1, "phase")
  /\ prev[1].val = 0 - 17
  /\ out[1].val = 0 - 17
  /\ devregs[LTC5599_FREQ_REG] < 128
  /\ devregs[LTC5599_IQ_PHASEBAL_REG] = 32 + 31

\* C7: for every v in -127..127, a successful gain-ratio write stores
\* (v & 0xFF) ^ 0x80, which is v + 128, and a following successful read
\* returns v.
C7_GainRatioRoundTrip ==
  \A t \in Callers :
    /\ (Wrote(t, "quadrature_correction_raw") /\ req[t].val \in (0 - 127) .. 127) =>
         /\ devregs[LTC5599_IQ_GAINRAT_REG] = req[t].val + 128
         /\ shadowregs[LTC5599_IQ_GAINRAT_REG] = req[t].val + 128
    /\ (ReadBack(t, "quadrature_correction_raw") /\ prev[t].val \in (0 - 127) .. 127) =>
         out[t].val = prev[t].val

C7_Witness ==
  /\ ReadBack(1, "quadrature_correction_raw")
  /\ prev[1].val = 0 - 1
  /\ out[1].val = 0 - 1
  /\ devregs[LTC5599_IQ_GAINRAT_REG] = 127

\* C8: for every v in -127..127 and channel c, a successful offset write stores
\* v + 128 in register 0x02 + c, and a following successful offset read on
\* channel c returns v.
C8_OffsetRoundTrip ==
  \A t \in Callers :
    /\ (Wrote(t, "offset") /\ req[t].val \in (0 - 127) .. 127) =>
         /\ devregs[2 + req[t].chan] = req[t].val + 128
         /\ shadowregs[2 + req[t].chan] = req[t].val + 128
    /\ (ReadBack(t, "offset") /\ prev[t].val \in (0 - 127) .. 127) =>
         out[t].val = prev[t].val

C8_Witness ==
  /\ ReadBack(1, "offset")
  /\ req[1].chan = 1
  /\ prev[1].val = 0 - 127
  /\ out[1].val = 0 - 127
  /\ devregs[LTC5599_OFFSQ_REG] = 1
  /\ devregs[LTC5599_OFFSI_REG] # 1

\* The word each edge frequency selects.
EdgeWords == [g \in FrequencyEdges |-> freq_to_ctrl_word(g \div 1000)]

\* The threshold of the i-th branch of the chain, whose word is i.
Threshold(i) == FreqTable[i][1]

\* C9: the tuning word written for f is that of the first threshold, from the
\* highest down, that f / 1000 strictly exceeds, and 121 at or below the
\* lowest; 1300000000 gives 1, 1249100000 gives 2, 30000000 gives 121; the word
\* is in 1..121 and never increases with f.
C9_TuningWord ==
  \A t \in Callers :
    (Wrote(t, "frequency") /\ req[t].val \in FrequencyEdges) =>
      LET f == req[t].val
          khz == f \div 1000
          w == devregs[LTC5599_FREQ_REG] % 128
      IN  /\ w \in 1 .. 121
          /\ shadowregs[LTC5599_FREQ_REG] % 128 = w
          /\ \A j \in 1 .. (w - 1) : ~(khz > Threshold(j))
          /\ w <= 120 => (khz > Threshold(w) /\ FreqTable[w][2] = w)
          /\ w = 121 => khz <= 93000
          /\ f = 1300000000 => w = 1
          /\ f = 1249100000 => w = 2
          /\ f = 30000000 => w = 121
          /\ \A g \in FrequencyEdges :
               /\ g <= f => EdgeWords[g] >= w
               /\ g >= f => EdgeWords[g] <= w

C9_Witness ==
  /\ Wrote(1, "frequency")
  /\ req[1].val = 1249100000
  /\ devregs[LTC5599_FREQ_REG] % 128 = 2

MinOf(a, b) == IF a < b THEN a ELSE b

\* C10: for every v <= 0 a successful gain write stores min(-v, 19) in the low
\* five bits of the gain register, and a following successful gain read
\* returns -min(-v, 19).
C10_GainClamp ==
  \A t \in Callers :
    /\ (Wrote(t, "hardwaregain") /\ req[t].val <= 0) =>
         /\ devregs[LTC5599_GAIN_REG] % 32 = MinOf(0 - req[t].val, 19)
         /\ shadowregs[LTC5599_GAIN_REG] = devregs[LTC5599_GAIN_REG]
    /\ (ReadBack(t, "hardwaregain") /\ prev[t].val <= 0) =>
         /\ result[t] = IIO_VAL_INT_PLUS_MICRO_DB
         /\ out[t].val = 0 - MinOf(0 - prev[t].val, 19)
         /\ out[t].val2 = 0

C10_Witness ==
  /\ ReadBack(1, "hardwaregain")
  /\ prev[1].val = 0 - 25
  /\ out[1].val = 0 - 19

\* No call has been made since the driver was bound.
NoCallYet == \A t \in Callers : pc[t] = "idle" /\ req[t] = NoReq

\* C11 (as claimed): a parameter read that returns a bus error leaves the
\* caller's output and every shadow-cache entry as they were before the call.
C11_FailedReadKeepsCache ==
  \A t \in Callers :
    (Done(t) /\ req[t].dir = "r" /\ nxfer[t] > 0 /\ ret[t] # 0) =>
      /\ result[t] = ret[t]
      /\ out[t] = NoOut
      /\ shadowregs = pre[t]

\* C11 (amended): a parameter read that returns a bus error leaves the caller's
\* output unmodified and every cache entry as before the call, except that a
\* phase-balance read whose first read (frequency register) succeeded and whose
\* second read failed has stored the byte of the first read in the
\* frequency-register entry.
C11_FailedReadKeepsCacheButFirstRead ==
  \A t \in Callers :
    (Done(t) /\ req[t].dir = "r" /\ nxfer[t] > 0 /\ ret[t] # 0) =>
      /\ result[t] = ret[t]
      /\ result[t] \in BusErrors
      /\ out[t] = NoOut
      /\ \A r \in Regs :
           IF req[t].info = "phase" /\ nxfer[t] = 2 /\ r = LTC5599_FREQ_REG
             THEN shadowregs[r] = lastOk[r]
             ELSE shadowregs[r] = pre[t][r]

C11_Witness ==
  /\ Done(1)
  /\ req[1] = R("phase", 0)
  /\ nxfer[1] = 2
  /\ result[1] \in BusErrors
  /\ out[1] = NoOut
  /\ pre[1][LTC5599_FREQ_REG] = 46
  /\ shadowregs[LTC5599_FREQ_REG] = 133

\* A read that succeeded right after the same caller's successful write of the
\* same parameter, through whichever channels.
ReadBackAny(t, info) ==
  /\ Done(t)
  /\ req[t].dir = "r"
  /\ req[t].info = info
  /\ result[t] > 0
  /\ prev[t].dir = "w"
  /\ prev[t].info = info

\* What a read returns after the write w of a chip-wide parameter.
ExpectedReadBack(w) ==
  CASE w.info = "frequency" -> FreqPolynomial(freq_to_ctrl_word(w.val \div 1000))
    [] w.info = "hardwaregain" -> 0 - MinOf(0 - w.val, 19)
    [] w.info = "quadrature_correction_raw" -> w.val
    [] w.info = "phase" -> w.val

\* C12: gain, frequency, gain ratio and phase balance written through either
\* channel are returned by a following read through either channel; a read of
\* the offset returns the written offset only on the channel written, and an
\* offset write on channel c leaves the other channel's offset register and
\* cache entry as they are.
C12_ChannelOnlySelectsOffset ==
  /\ [](\A t \in Callers :
         /\ \A info \in Infos \ {"offset"} :
              ReadBackAny(t, info) => out[t].val = ExpectedReadBack(prev[t])
         /\ ReadBackAny(t, "offset") =>
              out[t].val = IF req[t].chan = prev[t].chan
                             THEN prev[t].val
                             ELSE devregs[2 + req[t].chan] - 128)
  /\ [][\A t \in Callers :
          (req'[t].dir = "w" /\ req'[t].info = "offset" /\ pc'[t] # pc[t]) =>
            /\ devregs'[3 - req'[t].chan] = devregs[3 - req'[t].chan]
            /\ shadowregs'[3 - req'[t].chan] = shadowregs[3 - req'[t].chan]]_vars

C12_Witness ==
  /\ ReadBackAny(1, "hardwaregain")
  /\ req[1].chan = 1
  /\ prev[1].chan = 0
  /\ out[1].val = 0 - 3
  /\ devregs[LTC5599_OFFSI_REG] = 3

C12_WitnessOffset ==
  /\ ReadBackAny(1, "offset")
  /\ req[1].chan = 0
  /\ prev[1] = W("offset", 1, 5)
  /\ out[1].val = 3 - 128
  /\ devregs[LTC5599_OFFSQ_REG] = 133

\* C13: binding the driver performs no bus exchange and leaves the cache with
\* registers 0x00..0x08 at 0x2E, 0x84, 0x80, 0x80, 0x80, 0x10, 0x50, 0x06, 0x00
\* and the other 23 entries at zero.
C13_ProbePrimesCache ==
  NoCallYet =>
    /\ DOMAIN shadowregs = 0 .. 31
    /\ \A r \in 0 .. 8 : shadowregs[r] = << 46, 132, 128, 128, 128, 16, 80, 6, 0 >>[r + 1]
    /\ \A r \in 9 .. 31 : shadowregs[r] = 0
    /\ \A r \in Regs : lastOk[r] = 0 - 1
    /\ \A t \in Callers : nxfer[t] = 0
    /\ data = NoFrame
    /\ mlock = 0

C13_Witness ==
  /\ NoCallYet
  /\ devregs = DriftedValues
  /\ shadowregs[LTC5599_GAIN_REG] = 132
  /\ devregs[LTC5599_GAIN_REG] = 233

\* C14 (as claimed): when a frequency write and a phase-balance write of two
\* concurrent callers have both succeeded, the frequency register, on the chip
\* and in the cache, has the tuning word of the frequency write in its low
\* seven bits and the sign bit of the phase-balance write in bit 7.
C14_NoLostUpdate ==
  \A t, u \in Callers :
    (Quiescent /\ Wrote(t, "frequency") /\ Wrote(u, "phase")) =>
      LET merged == freq_to_ctrl_word(req[t].val \div 1000)
                      + (IF req[u].val < 0 - 16 THEN 0 ELSE 128)
      IN  /\ devregs[LTC5599_FREQ_REG] = merged
          /\ shadowregs[LTC5599_FREQ_REG] = merged

\* The caller is in a phase-balance write, past its first exchange (which
\* succeeded) and not yet past its second.
BetweenPhaseWrites(t) ==
  /\ req[t].dir = "w"
  /\ req[t].info = "phase"
  /\ \/ stage[t] = 1 /\ pc[t] \in {"write_unlock", "write_ret"} /\ ret[t] = 0
     \/ stage[t] = 2 /\ pc[t] \in {"write_lock", "write_frame", "write_xfer"}

\* C15 (as claimed): a phase-balance write holds the per-device lock from its
\* first register write to its second, so no other caller is at a bus exchange
\* in between.
C15_PhaseWriteSingleLock ==
  \A t \in Callers :
    BetweenPhaseWrites(t) =>
      /\ mlock = t
      /\ \A u \in Callers \ {t} : pc[u] \notin {"write_xfer", "read_xfer"}

\* The second half of the C15 claim alone: another caller at its exchange
\* between the two writes.
C15_NoExchangeBetweenPhaseWrites ==
  \A t \in Callers :
    BetweenPhaseWrites(t) =>
      \A u \in Callers \ {t} : pc[u] \notin {"write_xfer", "read_xfer"}

\* C16: a phase-balance write whose first write succeeded and whose second
\* failed returns the bus error with the phase-register entry holding the new
\* byte and the frequency-register entry as before the call; one whose first
\* write failed makes no second exchange and leaves both entries as before.
C16_PhaseWritePartialFailure ==
  \A t \in Callers :
    (Done(t) /\ req[t].dir = "w" /\ req[t].info = "phase" /\ nxfer[t] > 0 /\ ret[t] # 0) =>
      /\ result[t] = ret[t]
      /\ result[t] \in BusErrors
      /\ shadowregs[LTC5599_FREQ_REG] = pre[t][LTC5599_FREQ_REG]
      /\ IF stage[t] = 2
           THEN /\ nxfer[t] = 2
                /\ lastOk[LTC5599_IQ_PHASEBAL_REG] = devregs[LTC5599_IQ_PHASEBAL_REG]
                /\ shadowregs[LTC5599_IQ_PHASEBAL_REG] = devregs[LTC5599_IQ_PHASEBAL_REG]
                /\ req[t].val = 100 => shadowregs[LTC5599_IQ_PHASEBAL_REG] = 116
                /\ req[t].val = 0 - 17 => shadowregs[LTC5599_IQ_PHASEBAL_REG] = 63
           ELSE /\ nxfer[t] = 1
                /\ shadowregs[LTC5599_IQ_PHASEBAL_REG] = pre[t][LTC5599_IQ_PHASEBAL_REG]

C16_Witness ==
  /\ Done(1)
  /\ req[1] = W("phase", 0, 100)
  /\ nxfer[1] = 2
  /\ result[1] \in BusErrors
  /\ pre[1][LTC5599_IQ_PHASEBAL_REG] = 16
  /\ shadowregs[LTC5599_IQ_PHASEBAL_REG] = 116
  /\ shadowregs[LTC5599_FREQ_REG] < 128

\* C17: with a single caller a frequency write leaves bit 7 of the frequency
\* register, a phase-balance write its low seven bits, and a gain write bits
\* 5..7 of the gain register as the cache held them, in the byte sent and in
\* the cache entry afterwards.
C17_BitFieldsPreserved ==
  \A t \in Callers :
    /\ Wrote(t, "frequency") =>
         /\ shadowregs[LTC5599_FREQ_REG] \div 128 = pre[t][LTC5599_FREQ_REG] \div 128
         /\ data = << 0, shadowregs[LTC5599_FREQ_REG] >>
    /\ Wrote(t, "phase") =>
         /\ shadowregs[LTC5599_FREQ_REG] % 128 = pre[t][LTC5599_FREQ_REG] % 128
         /\ data = << 0, shadowregs[LTC5599_FREQ_REG] >>
    /\ Wrote(t, "hardwaregain") =>
         /\ shadowregs[LTC5599_GAIN_REG] \div 32 = pre[t][LTC5599_GAIN_REG] \div 32
         /\ data = << 2, shadowregs[LTC5599_GAIN_REG] >>

C17_Witness ==
  /\ Wrote(1, "frequency")
  /\ req[1].val = 1300000000
  /\ prev[1] = W("phase", 0, 100)
  /\ pre[1][LTC5599_FREQ_REG] >= 128
  /\ shadowregs[LTC5599_FREQ_REG] = 129
  /\ shadowregs[LTC5599_GAIN_REG] = 132

\* C18 (as claimed): every call other than the phase-balance write performs at
\* most one bus exchange.
C18_OneExchangeButPhaseWrite ==
  \A t \in Callers :
    ~(req[t].dir = "w" /\ req[t].info = "phase") => nxfer[t] <= 1

\* C18 (amended): every call other than the phase-balance write and the
\* phase-balance read performs at most one bus exchange; those two perform at
\* most two, the read addressing the frequency register and then the phase
\* register.
C18_OneExchangeButPhase ==
  \A t \in Callers :
    /\ nxfer[t] <= (IF req[t].info = "phase" THEN 2 ELSE 1)
    /\ (req[t] = R("phase", req[t].chan) /\ nxfer[t] = 2) =>
         (built[t] = NoFrame \/ built[t] = ReadFrame(LTC5599_IQ_PHASEBAL_REG))

C18_Witness ==
  /\ Done(1)
  /\ req[1] = R("phase", 0)
  /\ nxfer[1] = 2
  /\ result[1] = IIO_VAL_INT

\* A caller between taking the lock and releasing it.
InAccess(t) ==
  pc[t] \in {"write_frame", "write_xfer", "write_unlock",
             "read_frame", "read_xfer", "read_unlock"}

\* C19: at most one caller at a time is between building its frame and the
\* end of its exchange; the frame exchanged is the frame that caller built,
\* whose first byte is the register address shifted left by one with the read
\* bit and whose second byte is the payload (0xFF for a read).
C19_FrameIntegrity ==
  /\ \A t, u \in Callers : (InAccess(t) /\ InAccess(u)) => t = u
  /\ \A t \in Callers :
       /\ InAccess(t) => mlock = t
       /\ pc[t] \in {"write_xfer", "read_xfer"} =>
            /\ data = built[t]
            /\ data[1] = 2 * addr[t] + (IF pc[t] = "read_xfer" THEN LTC5599_READ_OPERATION ELSE 0)
            /\ data[2] = (IF pc[t] = "read_xfer" THEN 255 ELSE val[t])
       /\ pc[t] \in {"write_unlock", "read_unlock"} => data = built[t]

C19_Witness ==
  /\ pc[1] = "write_xfer"
  /\ req[1] = W("frequency", 0, 30000000)
  /\ data = << 0, 121 >>
  /\ pc[2] = "read_lock"
  /\ nxfer[2] = 1
  /\ built[2] = << 1, 255 >>

\* C20: the lock is released before ltc5599_write/ltc5599_read return, after
\* a failed exchange as after a successful one, so it is free whenever no
\* register access is in progress; under fair scheduling every caller waiting
\* for the lock acquires it and every call returns.
C20_LockReleasedAndProgress ==
  /\ [](\A t \in Callers : ~InAccess(t) => mlock # t)
  /\ []((\A t \in Callers : ~InAccess(t)) => mlock = 0)
  /\ \A t \in Callers :
       /\ (pc[t] \in {"write_lock", "read_lock"}) ~> (mlock = t)
       /\ (pc[t] # "idle") ~> (pc[t] = "idle")

C20_Witness ==
  /\ Done(1)
  /\ req[1] = W("phase", 1, 100)
  /\ nxfer[1] = 2
  /\ result[1] \in BusErrors
  /\ mlock = 2
  /\ pc[2] = "read_xfer"
  /\ nxfer[2] = 0

\* C21: for every frequency f in 30000000..1300000000, after a successful
\* write of f and a successful frequency read, the value read is inside the
\* write domain, and writing that value selects the tuning word the write of
\* f selected.
C21_ReadBackStable ==
  /\ [](\A t \in Callers :
         ReadBack(t, "frequency") =>
           (out[t].val >= 30000000 /\ out[t].val <= 1300000000))
  /\ [][\A t \in Callers :
          (/\ ReadBack(t, "frequency")
           /\ pc'[t] # pc[t]
           /\ req'[t] = W("frequency", req[t].chan, out[t].val)) =>
            /\ pc'[t] = "write_lock"
            /\ FreqField(val'[t]) = freq_to_ctrl_word(prev[t].val \div 1000)]_vars
====
